---- MODULE Spec2Model ----
(***************************************************************************)
(* Model of lib/AIModelsCatalog/list_all_ai_models.py: the reconciliation  *)
(* of the persisted model catalog (models.json) with the listings of the   *)
(* three managed providers.                                                *)
(*                                                                         *)
(* Python strings that the script inspects (ids, names, providerIds) are   *)
(* tuples of one-character strings, so that lower(), "in", startswith(),   *)
(* replace(), title() and the sort's comparison are computed, not assumed. *)
(***************************************************************************)
EXTENDS Integers, Sequences, FiniteSets, TLC

\* ------------------------------------------------------------------------
\* Bounds of the model
\* ------------------------------------------------------------------------

\* most records in the persisted catalog at the start of the first run
MaxPrior == 2

\* most descriptors the three provider APIs list together in one run
MaxListed == 2

\* ------------------------------------------------------------------------
\* Python str operations on character tuples
\* ------------------------------------------------------------------------

LowerLetters ==
  <<"a", "b", "c", "d", "e", "f", "g", "h", "i", "j", "k", "l", "m",
    "n", "o", "p", "q", "r", "s", "t", "u", "v", "w", "x", "y", "z">>

UpperLetters ==
  <<"A", "B", "C", "D", "E", "F", "G", "H", "I", "J", "K", "L", "M",
    "N", "O", "P", "Q", "R", "S", "T", "U", "V", "W", "X", "Y", "Z">>

\* the characters of the model in ascending code point order (str comparison)
CodePoints ==
  <<" ", "-", ".", "/", "0", "1", "2", "3", "4", "5", "6", "7", "8", "9">>
  \o UpperLetters \o <<"_">> \o LowerLetters \o <<"U+00B7">>

IndexIn(c, t) == CHOOSE i \in 1..Len(t) : t[i] = c

IsUpper(c) == \E i \in 1..Len(UpperLetters) : UpperLetters[i] = c

IsLower(c) == \E i \in 1..Len(LowerLetters) : LowerLetters[i] = c

IsCased(c) == IsUpper(c) \/ IsLower(c)

LowerChar(c) == IF IsUpper(c) THEN LowerLetters[IndexIn(c, UpperLetters)] ELSE c

UpperChar(c) == IF IsLower(c) THEN UpperLetters[IndexIn(c, LowerLetters)] ELSE c

\* str.lower()
Lower(s) == [i \in 1..Len(s) |-> LowerChar(s[i])]

\* str.title(): a cased character is upper-cased when it starts a run of
\* cased characters and lower-cased otherwise
Title(s) ==
  [i \in 1..Len(s) |->
     IF i > 1 /\ IsCased(s[i - 1]) THEN LowerChar(s[i]) ELSE UpperChar(s[i])]

\* s[i:i+len(x)] == x  (i is 1-based)
MatchAt(s, x, i) ==
  /\ i >= 1
  /\ i + Len(x) - 1 <= Len(s)
  /\ \A k \in 1..Len(x) : s[i + k - 1] = x[k]

\* x in s
Contains(s, x) == \E i \in 1..(Len(s) + 1) : MatchAt(s, x, i)

\* s.startswith(x)
StartsWith(s, x) == MatchAt(s, x, 1)

\* s.replace(old, new) for a non-empty old: leftmost, non-overlapping
RECURSIVE Replace(_, _, _)
Replace(s, old, new) ==
  IF s = <<>> THEN <<>>
  ELSE IF MatchAt(s, old, 1)
       THEN new \o Replace(SubSeq(s, Len(old) + 1, Len(s)), old, new)
       ELSE <<s[1]>> \o Replace(Tail(s), old, new)

\* re.search(r'exp.*(pro|advanced)', s)
SearchExpProAdvanced(s) ==
  \E i \in 1..Len(s) :
    /\ MatchAt(s, <<"e", "x", "p">>, i)
    /\ \E j \in (i + 3)..Len(s) :
         \/ MatchAt(s, <<"p", "r", "o">>, j)
         \/ MatchAt(s, <<"a", "d", "v", "a", "n", "c", "e", "d">>, j)

Ord(c) == IndexIn(c, CodePoints)

\* s < t for two str
RECURSIVE StrLess(_, _)
StrLess(s, t) ==
  IF t = <<>> THEN FALSE
  ELSE IF s = <<>> THEN TRUE
  ELSE IF s[1] = t[1] THEN StrLess(Tail(s), Tail(t))
  ELSE Ord(s[1]) < Ord(t[1])

\* ------------------------------------------------------------------------
\* String constants of the script
\* ------------------------------------------------------------------------

\* Python's None where a str is expected
None == <<"None">>

google == <<"g", "o", "o", "g", "l", "e">>
openai == <<"o", "p", "e", "n", "a", "i">>
anthropic == <<"a", "n", "t", "h", "r", "o", "p", "i", "c">>

managed_provider_ids == {google, openai, anthropic}

FlagNames ==
  <<"multiModal", "canSearch", "canGenerateImages", "isAdvancedReasoner",
    "canAccessInternet", "supportsReasoning">>

s_gemini == <<"g", "e", "m", "i", "n", "i">>
s_imagen == <<"i", "m", "a", "g", "e", "n">>
s_pro == <<"p", "r", "o">>
s_exp == <<"e", "x", "p">>
s_ultra == <<"u", "l", "t", "r", "a">>
s_flash == <<"f", "l", "a", "s", "h">>
s_preview == <<"p", "r", "e", "v", "i", "e", "w">>
s_gemini_1_5 == <<"g", "e", "m", "i", "n", "i", "-", "1", ".", "5">>
s_gemini_2_5 == <<"g", "e", "m", "i", "n", "i", "-", "2", ".", "5">>
s_1_5 == <<"1", ".", "5">>
s_2_0 == <<"2", ".", "0">>
s_2_5 == <<"2", ".", "5">>
s_4_1 == <<"4", ".", "1">>
s_4o == <<"4", "o">>
s_o == <<"o">>
s_gpt_3_5 == <<"g", "p", "t", "-", "3", ".", "5">>
s_gpt_4o == <<"g", "p", "t", "-", "4", "o">>
s_gpt_4 == <<"g", "p", "t", "-", "4">>
s_gpt_5 == <<"g", "p", "t", "-", "5">>
s_dall_e == <<"d", "a", "l", "l", "-", "e">>
s_gpt_image == <<"g", "p", "t", "-", "i", "m", "a", "g", "e">>
s_mini == <<"m", "i", "n", "i">>
s_nano == <<"n", "a", "n", "o">>
s_claude_3 == <<"c", "l", "a", "u", "d", "e", "-", "3">>
s_claude_3_5_sonnet ==
  <<"c", "l", "a", "u", "d", "e", "-", "3", "-", "5", "-",
    "s", "o", "n", "n", "e", "t">>
s_claude_3_7_sonnet ==
  <<"c", "l", "a", "u", "d", "e", "-", "3", ".", "7", "-",
    "s", "o", "n", "n", "e", "t">>
s_sonnet == <<"s", "o", "n", "n", "e", "t">>
s_haiku == <<"h", "a", "i", "k", "u">>
s_instant == <<"i", "n", "s", "t", "a", "n", "t">>
s_opus == <<"o", "p", "u", "s">>
s_models_slash == <<"m", "o", "d", "e", "l", "s", "/">>
s_Gpt == <<"G", "p", "t">>
s_GPT == <<"G", "P", "T">>
s_Dall_E == <<" ", "D", "a", "l", "l", " ", "E">>
s_DALL_E == <<" ", "D", "A", "L", "L", "U+00B7", "E">>

\* ------------------------------------------------------------------------
\* apply_heuristics_for_new_model
\* ------------------------------------------------------------------------

\* the default capabilities of a new model
DefaultCapabilities ==
  [multiModal |-> FALSE, canSearch |-> FALSE, canGenerateImages |-> FALSE,
   isAdvancedReasoner |-> FALSE, canAccessInternet |-> FALSE,
   supportsReasoning |-> TRUE]

\* api_data.get("supportedActions", [])
SupportedActions(api_data) ==
  IF "supportedActions" \in DOMAIN api_data THEN api_data.supportedActions ELSE <<>>

\* the provider_short_id == "google" branch
GoogleCapabilities(idl, namel, api_data) ==
  LET gem == Contains(idl, s_gemini) \/ Contains(namel, s_gemini)
      advanced ==
        \/ Contains(idl, s_pro)
        \/ Contains(idl, s_ultra)
        \/ SearchExpProAdvanced(idl)
        \/ Contains(idl, s_gemini_1_5)
        \/ Contains(idl, s_gemini_2_5)
      oldFlash ==
        Contains(idl, s_flash) /\ ~(Contains(idl, s_2_5) \/ Contains(idl, s_exp))
      img == Contains(idl, s_imagen)
      noActions ==
        /\ SupportedActions(api_data) \in {<<>>, None}
        /\ ~(Contains(idl, s_gemini) \/ Contains(idl, s_imagen))
      newer ==
        /\ Contains(idl, s_gemini)
        /\ \/ Contains(idl, s_1_5)
           \/ Contains(idl, s_2_0)
           \/ Contains(idl, s_2_5)
           \/ Contains(idl, s_exp)
           \/ Contains(idl, s_preview)
  IN [multiModal |-> gem \/ img,
      canSearch |-> newer,
      canGenerateImages |->
        img \/ (newer /\ (Contains(idl, s_2_5) \/ Contains(idl, s_pro))),
      isAdvancedReasoner |-> gem /\ advanced /\ ~oldFlash,
      canAccessInternet |-> newer,
      supportsReasoning |-> ~img /\ ~noActions]

\* the provider_short_id == "openai" branch
OpenAICapabilities(idl) ==
  LET family ==
        IF StartsWith(idl, s_gpt_3_5) THEN [mm |-> FALSE, adv |-> FALSE]
        ELSE IF StartsWith(idl, s_gpt_4o)
          THEN [mm |-> TRUE,
                adv |-> ~(Contains(idl, s_mini) \/ Contains(idl, s_nano))]
        ELSE IF StartsWith(idl, s_gpt_4)
          THEN [mm |-> Contains(idl, s_gpt_4o) \/ Contains(idl, s_4_1)
                         \/ Contains(idl, s_4o),
                adv |-> TRUE]
        ELSE IF StartsWith(idl, s_gpt_5) THEN [mm |-> FALSE, adv |-> TRUE]
        ELSE IF StartsWith(idl, s_o)
          THEN [mm |-> TRUE, adv |-> ~Contains(idl, s_mini)]
        ELSE [mm |-> FALSE, adv |-> FALSE]
      image == StartsWith(idl, s_dall_e) \/ StartsWith(idl, s_gpt_image)
  IN [multiModal |-> family.mm \/ image,
      canSearch |-> FALSE,
      canGenerateImages |-> image,
      isAdvancedReasoner |-> family.adv,
      canAccessInternet |-> FALSE,
      supportsReasoning |-> ~image]

\* the provider_short_id == "anthropic" branch
AnthropicCapabilities(idl) ==
  LET sonnet35 ==
        Contains(idl, s_claude_3_5_sonnet) \/ Contains(idl, s_claude_3_7_sonnet)
  IN [multiModal |-> Contains(idl, s_claude_3),
      canSearch |-> sonnet35,
      canGenerateImages |-> sonnet35,
      isAdvancedReasoner |->
        \/ Contains(idl, s_opus) \/ sonnet35
        \/ (Contains(idl, s_sonnet) /\ Contains(idl, s_claude_3)),
      canAccessInternet |-> sonnet35,
      supportsReasoning |-> TRUE]

\* the rules of the provider's branch, before the final normalisation
ProviderCapabilities(model_id, display_name, provider_short_id, api_data) ==
  LET idl == Lower(model_id)
      namel == Lower(IF display_name \in {None, <<>>} THEN model_id ELSE display_name)
  IN IF provider_short_id = google THEN GoogleCapabilities(idl, namel, api_data)
     ELSE IF provider_short_id = openai THEN OpenAICapabilities(idl)
     ELSE IF provider_short_id = anthropic THEN AnthropicCapabilities(idl)
     ELSE DefaultCapabilities

\* a mutant of Normalize: the final normalisation is left out
NormalizeSkipped(capabilities) == capabilities

\* if not capabilities["supportsReasoning"]: isAdvancedReasoner = False
Normalize(capabilities) ==
  IF ~capabilities.supportsReasoning
  THEN [capabilities EXCEPT !.isAdvancedReasoner = FALSE]
  ELSE capabilities

apply_heuristics_for_new_model(model_id, display_name, provider_short_id, api_data) ==
  Normalize(ProviderCapabilities(model_id, display_name, provider_short_id, api_data))

\* ------------------------------------------------------------------------
\* fetch_and_transform_models
\* ------------------------------------------------------------------------

ProviderName(provider_short_id) ==
  IF provider_short_id = google THEN "Google Generative AI"
  ELSE IF provider_short_id = openai THEN "OpenAI"
  ELSE "Anthropic"

\* the human-readable name built from a raw descriptor
DerivedName(api_model_data, provider_short_id) ==
  LET model_id == api_model_data.id
      display_name_from_api == api_model_data.displayName
  IN IF /\ provider_short_id = openai
        /\ ~StartsWith(model_id, s_dall_e)
        /\ model_id = display_name_from_api
     THEN LET titled == Title(Replace(Replace(model_id, <<"-">>, <<" ">>),
                                      <<"_">>, <<" ">>))
              gpt == IF Contains(titled, s_Gpt)
                     THEN Replace(titled, s_Gpt, s_GPT) ELSE titled
          IN IF Contains(gpt, s_Dall_E) THEN Replace(gpt, s_Dall_E, s_DALL_E) ELSE gpt
     ELSE IF provider_short_id = google /\ StartsWith(model_id, s_models_slash)
     THEN Title(Replace(Replace(display_name_from_api, s_models_slash, <<>>),
                        <<"-">>, <<" ">>))
     ELSE display_name_from_api

\* the transformation of one descriptor raises (None.replace: AttributeError)
TransformRaises(api_model_data, provider_short_id) ==
  /\ provider_short_id = google
  /\ StartsWith(api_model_data.id, s_models_slash)
  /\ api_model_data.displayName = None

\* schema_entry
SchemaEntry(api_model_data, provider_short_id) ==
  LET name == DerivedName(api_model_data, provider_short_id)
      caps == apply_heuristics_for_new_model(api_model_data.id, name,
                                             provider_short_id, api_model_data)
  IN [id |-> api_model_data.id,
      provider |-> ProviderName(provider_short_id),
      providerId |-> provider_short_id,
      name |-> name,
      multiModal |-> caps.multiModal,
      canSearch |-> caps.canSearch,
      canGenerateImages |-> caps.canGenerateImages,
      isAdvancedReasoner |-> caps.isAdvancedReasoner,
      canAccessInternet |-> caps.canAccessInternet,
      supportsReasoning |-> caps.supportsReasoning]

\* the entries appended to transformed_models before the loop ends or raises
RECURSIVE TransformLoop(_, _)
TransformLoop(raw_api_models, provider_short_id) ==
  IF raw_api_models = <<>> \/ TransformRaises(Head(raw_api_models), provider_short_id)
  THEN <<>>
  ELSE <<SchemaEntry(Head(raw_api_models), provider_short_id)>>
         \o TransformLoop(Tail(raw_api_models), provider_short_id)

\* an exception reaches the except clause of fetch_and_transform_models;
\* fetch is the outcome of fetch_function(): it raises, or it lists descriptors
FetchFails(fetch, provider_short_id) ==
  \/ fetch.raises
  \/ \E i \in 1..Len(fetch.listed) : TransformRaises(fetch.listed[i], provider_short_id)

\* the list fetch_and_transform_models returns
fetch_and_transform_models(fetch, provider_short_id) ==
  IF fetch.raises THEN <<>> ELSE TransformLoop(fetch.listed, provider_short_id)

\* ------------------------------------------------------------------------
\* main: partition, merge, probe, combine
\* ------------------------------------------------------------------------

KeyOf(m) == <<m.providerId, m.id>>

IsManaged(m) == m.providerId \in managed_provider_ids

\* the sort key (x["providerId"], x["id"]) of a is less than that of b
KeyLess(a, b) ==
  \/ StrLess(a.providerId, b.providerId)
  \/ a.providerId = b.providerId /\ StrLess(a.id, b.id)

\* the dict comprehension or the list comprehension raises KeyError
PartitionRaises(models) ==
  \E i \in 1..Len(models) :
    \/ "providerId" \notin DOMAIN models[i]
    \/ models[i].providerId \in managed_provider_ids /\ "id" \notin DOMAIN models[i]

\* existing_managed_models_map: a later record with the same key wins
ExistingManagedModelsMap(models) ==
  LET idx == {i \in 1..Len(models) : IsManaged(models[i])}
      keys == {KeyOf(models[i]) : i \in idx}
      last(k) == CHOOSE i \in idx :
                   /\ KeyOf(models[i]) = k
                   /\ \A j \in idx : KeyOf(models[j]) = k => j <= i
  IN [k \in keys |-> models[last(k)]]

\* a mutant of OtherProviderModels: the preserved records lose the last one
OtherProviderModelsDropLast(models) ==
  LET kept == SelectSeq(models, LAMBDA m : ~IsManaged(m))
  IN IF kept = <<>> THEN <<>> ELSE SubSeq(kept, 1, Len(kept) - 1)

\* other_provider_models
OtherProviderModels(models) == SelectSeq(models, LAMBDA m : ~IsManaged(m))

\* updated_entry[flag] = value
SetItem(entry, key, value) ==
  [k \in DOMAIN entry \cup {key} |-> IF k = key THEN value ELSE entry[k]]

\* api_data = api_data or {}
NoApiData == [x \in {} |-> TRUE]

\* capabilities.get(flag, False) of the classifier called without api_data
HeuristicFlag(fetched_model, flag) ==
  apply_heuristics_for_new_model(fetched_model.id, fetched_model.name,
                                 fetched_model.providerId, NoApiData)[flag]

\* the body of "for flag in [...]" for the flags from position i on
RECURSIVE FlagLoop(_, _, _, _, _)
FlagLoop(updated_entry, existing_model_entry, fetched_model, refresh, i) ==
  IF i > Len(FlagNames) THEN updated_entry
  ELSE LET flag == FlagNames[i]
           next ==
             IF ~refresh /\ flag \in DOMAIN existing_model_entry
             THEN SetItem(updated_entry, flag, existing_model_entry[flag])
             ELSE IF flag \notin DOMAIN updated_entry
             THEN SetItem(updated_entry, flag, HeuristicFlag(fetched_model, flag))
             ELSE updated_entry
       IN FlagLoop(next, existing_model_entry, fetched_model, refresh, i + 1)

\* a mutant of PreserveOrRefresh: the refresh toggle is ignored
PreserveAlways(fetched_model, existing_model_entry, refresh) ==
  FlagLoop(fetched_model, existing_model_entry, fetched_model, FALSE, 1)

\* updated_entry for a fetched model whose key is in the map
PreserveOrRefresh(fetched_model, existing_model_entry, refresh) ==
  FlagLoop(fetched_model, existing_model_entry, fetched_model, refresh, 1)

\* one iteration of "for fetched_model in all_fetched_api_models";
\* acc holds updated_managed_models_list and existing_managed_models_map
MergeStep(acc, fetched_model, refresh) ==
  LET lookup_key == KeyOf(fetched_model)
  IN IF lookup_key \in DOMAIN acc.map
     THEN [updated |-> Append(acc.updated,
                              PreserveOrRefresh(fetched_model, acc.map[lookup_key],
                                                refresh)),
           map |-> [k \in DOMAIN acc.map \ {lookup_key} |-> acc.map[k]]]
     ELSE [updated |-> Append(acc.updated, fetched_model), map |-> acc.map]

\* the entries of a map as a list, in the order of the sort key
RECURSIVE MapValues(_)
MapValues(map) ==
  IF DOMAIN map = {} THEN <<>>
  ELSE LET k == CHOOSE x \in DOMAIN map :
                  \A y \in DOMAIN map \ {x} : KeyLess(map[x], map[y])
       IN <<map[k]>> \o MapValues([y \in DOMAIN map \ {k} |-> map[y]])

\* a mutant of MergeLoop: the entries left in the map are added back
RECURSIVE MergeLoopKeepStale(_, _, _)
MergeLoopKeepStale(acc, fetched, refresh) ==
  IF fetched = <<>>
  THEN [updated |-> acc.updated \o MapValues(acc.map), map |-> acc.map]
  ELSE MergeLoopKeepStale(MergeStep(acc, Head(fetched), refresh), Tail(fetched),
                          refresh)

\* "for fetched_model in all_fetched_api_models"; nothing is added back after it
RECURSIVE MergeLoop(_, _, _)
MergeLoop(acc, fetched, refresh) ==
  IF fetched = <<>> THEN acc
  ELSE MergeLoop(MergeStep(acc, Head(fetched), refresh), Tail(fetched), refresh)

\* mid.startswith("gpt-4o") or mid.startswith("o") or mid.startswith("gpt-5")
ProbeEligible(m) ==
  LET mid == Lower(m.id)
  IN StartsWith(mid, s_gpt_4o) \/ StartsWith(mid, s_o) \/ StartsWith(mid, s_gpt_5)

\* probe_openai_model_supports_image: True when the request does not raise
probe_openai_model_supports_image(request) == request = "ok"

\* a mutant of ProbeEffect: the probe's result is stored as the flag
ProbeEffectStoresResult(m, supports_image) ==
  SetItem(m, "multiModal", supports_image)

\* if probe_openai_model_supports_image(m["id"]): m["multiModal"] = True
ProbeEffect(m, supports_image) ==
  IF supports_image THEN SetItem(m, "multiModal", TRUE) ELSE m

RECURSIVE InsertSorted(_, _)
InsertSorted(s, x) ==
  IF s = <<>> THEN <<x>>
  ELSE IF KeyLess(x, s[1]) THEN <<x>> \o s
  ELSE <<s[1]>> \o InsertSorted(Tail(s), x)

\* sorted(models, key=...): stable
RECURSIVE Sorted(_)
Sorted(models) ==
  IF models = <<>> THEN <<>>
  ELSE InsertSorted(Sorted(SubSeq(models, 1, Len(models) - 1)), models[Len(models)])

\* the sort key lambda raises KeyError
SortRaises(models) ==
  \E i \in 1..Len(models) : {"providerId", "id"} \ DOMAIN models[i] # {}

\* final_models_list
FinalModelsList(updated, other) == Sorted(updated \o other)

\* ------------------------------------------------------------------------
\* The inputs of a run
\* ------------------------------------------------------------------------

s_gpt_5_id == <<"g", "p", "t", "-", "5">>
s_dall_e_3 == <<"d", "a", "l", "l", "-", "e", "-", "3">>
s_imagen_pro ==
  <<"m", "o", "d", "e", "l", "s", "/", "i", "m", "a", "g", "e", "n", "-", "p", "r", "o">>
s_gemini_pro ==
  <<"m", "o", "d", "e", "l", "s", "/", "g", "e", "m", "i", "n", "i", "-", "p", "r", "o">>
s_Gemini_Imagen == <<"G", "e", "m", "i", "n", "i", " ", "I", "m", "a", "g", "e", "n">>
s_gemini_1_5_pro ==
  <<"m", "o", "d", "e", "l", "s", "/", "g", "e", "m", "i", "n", "i", "-", "1", ".", "5",
    "-", "p", "r", "o">>
s_Gemini_1_5_Pro ==
  <<"G", "e", "m", "i", "n", "i", " ", "1", ".", "5", " ", "P", "r", "o">>
s_claude_3_opus == <<"c", "l", "a", "u", "d", "e", "-", "3", "-", "o", "p", "u", "s">>
s_Claude_3_Opus == <<"C", "l", "a", "u", "d", "e", " ", "3", " ", "O", "p", "u", "s">>
s_mistral == <<"m", "i", "s", "t", "r", "a", "l">>
s_mistral_7b == <<"m", "i", "s", "t", "r", "a", "l", "-", "7", "b">>
s_GPT_5 == <<"G", "P", "T", " ", "5">>

\* the descriptors a provider's raw_fetch_* can list
Descriptors(provider_short_id) ==
  IF provider_short_id = google
  THEN {[id |-> s_imagen_pro, displayName |-> s_Gemini_Imagen,
         supportedActions |-> <<"predict">>],
        [id |-> s_gemini_1_5_pro, displayName |-> s_Gemini_1_5_Pro,
         supportedActions |-> <<"generateContent">>],
        [id |-> s_gemini_pro, displayName |-> None,
         supportedActions |-> <<"generateContent">>]}
  ELSE IF provider_short_id = openai
  THEN {[id |-> s_gpt_5_id, displayName |-> s_gpt_5_id],
        [id |-> s_dall_e_3, displayName |-> s_dall_e_3]}
  ELSE {[id |-> s_claude_3_opus, displayName |-> s_Claude_3_Opus]}

SeqsUpTo(S, n) == UNION {[1..k -> S] : k \in 0..n}

\* what fetch_function() does: it raises, or it returns a list of descriptors
FetchOutcomes(provider_short_id) ==
  {[raises |-> TRUE, listed |-> <<>>]}
    \cup {[raises |-> FALSE, listed |-> l] :
            l \in SeqsUpTo(Descriptors(provider_short_id), MaxListed)}

ProviderApis ==
  {[raw_fetch_google |-> g, raw_fetch_openai |-> o, raw_fetch_anthropic |-> a] :
     g \in FetchOutcomes(google), o \in FetchOutcomes(openai),
     a \in FetchOutcomes(anthropic)}

\* records a persisted catalog can hold before the first run: a hand-edited
\* managed record that defines three flags, a record of another provider,
\* and records that lack a key
PriorRecords ==
  {[id |-> s_gpt_5_id, provider |-> "OpenAI", providerId |-> openai,
    name |-> s_GPT_5, multiModal |-> TRUE, isAdvancedReasoner |-> TRUE,
    supportsReasoning |-> FALSE],
   [id |-> s_mistral_7b, provider |-> "Mistral", providerId |-> s_mistral,
    name |-> s_mistral_7b, multiModal |-> FALSE, contextWindow |-> 32768],
   [id |-> s_gpt_5_id, provider |-> "OpenAI", name |-> s_GPT_5],
   [provider |-> "Mistral", providerId |-> s_mistral, name |-> s_mistral_7b]}

\* the content of models.json
ModelsJsonFiles ==
  {[kind |-> "absent", models |-> <<>>], [kind |-> "invalid_json", models |-> <<>>]}
    \cup {[kind |-> "catalog", models |-> c] : c \in SeqsUpTo(PriorRecords, MaxPrior)}

\* ------------------------------------------------------------------------
\* State
\* ------------------------------------------------------------------------

VARIABLES
  models_json,                    \* the content of MODELS_JSON_PATH
  provider_api,                   \* what each raw_fetch_* does in a run
  refresh_caps,                   \* REFRESH_CAPS
  enable_openai_probes,           \* ENABLE_OPENAI_PROBES
  pc,                             \* the position of main
  current_models_list,
  existing_managed_models_map,
  other_provider_models,
  all_fetched_api_models,
  updated_managed_models_list,
  final_models_list,
  probe_pos,                      \* index of the last record the probe loop visited
  probe_calls,                    \* the calls of probe_openai_model_supports_image
  fetch_errors,                   \* providers whose fetch reached the except clause
  write_ok,                       \* the write of this run succeeded
  prev_output                     \* the catalog the previous run wrote

vars ==
  <<models_json, provider_api, refresh_caps, enable_openai_probes, pc,
    current_models_list, existing_managed_models_map, other_provider_models,
    all_fetched_api_models, updated_managed_models_list, final_models_list,
    probe_pos, probe_calls, fetch_errors, write_ok, prev_output>>

env == <<provider_api, refresh_caps, enable_openai_probes>>

NoOutput == [written |-> FALSE, models |-> <<>>]

EmptyMap == [k \in {} |-> TRUE]

ListedTotal(api) ==
  Len(api.raw_fetch_google.listed) + Len(api.raw_fetch_openai.listed)
    + Len(api.raw_fetch_anthropic.listed)

Init ==
  /\ models_json \in ModelsJsonFiles
  /\ provider_api \in {api \in ProviderApis : ListedTotal(api) <= MaxListed}
  /\ refresh_caps \in BOOLEAN
  /\ enable_openai_probes \in BOOLEAN
  /\ pc = "load"
  /\ current_models_list = <<>>
  /\ existing_managed_models_map = EmptyMap
  /\ other_provider_models = <<>>
  /\ all_fetched_api_models = <<>>
  /\ updated_managed_models_list = <<>>
  /\ final_models_list = <<>>
  /\ probe_pos = 0
  /\ probe_calls = <<>>
  /\ fetch_errors = {}
  /\ write_ok = FALSE
  /\ prev_output = NoOutput

\* ------------------------------------------------------------------------
\* The steps of main
\* ------------------------------------------------------------------------

\* 1. load models.json; a file that is absent or does not decode gives []
LoadedModels(file) == IF file.kind = "catalog" THEN file.models ELSE <<>>

Load ==
  /\ pc = "load"
  /\ current_models_list' = LoadedModels(models_json)
  /\ pc' = "partition"
  /\ UNCHANGED <<models_json, env, existing_managed_models_map, other_provider_models,
                 all_fetched_api_models, updated_managed_models_list,
                 final_models_list, probe_pos, probe_calls, fetch_errors, write_ok,
                 prev_output>>

\* existing_managed_models_map and other_provider_models; a record without
\* the key the comprehensions index raises KeyError out of main
Partition ==
  /\ pc = "partition"
  /\ IF PartitionRaises(current_models_list)
     THEN /\ pc' = "crashed"
          /\ UNCHANGED <<existing_managed_models_map, other_provider_models>>
     ELSE /\ pc' = "fetch_google"
          /\ existing_managed_models_map' = ExistingManagedModelsMap(current_models_list)
          /\ other_provider_models' = OtherProviderModels(current_models_list)
  /\ UNCHANGED <<models_json, env, current_models_list, all_fetched_api_models,
                 updated_managed_models_list, final_models_list, probe_pos,
                 probe_calls, fetch_errors, write_ok, prev_output>>

\* 2. all_fetched_api_models.extend(fetch_and_transform_models(...))
Fetch(at, fetch, provider_short_id, next) ==
  /\ pc = at
  /\ all_fetched_api_models' =
       all_fetched_api_models \o fetch_and_transform_models(fetch, provider_short_id)
  /\ fetch_errors' =
       IF FetchFails(fetch, provider_short_id)
       THEN fetch_errors \cup {provider_short_id} ELSE fetch_errors
  /\ pc' = next
  /\ UNCHANGED <<models_json, env, current_models_list, existing_managed_models_map,
                 other_provider_models, updated_managed_models_list,
                 final_models_list, probe_pos, probe_calls, write_ok, prev_output>>

FetchGoogle == Fetch("fetch_google", provider_api.raw_fetch_google, google, "fetch_openai")

FetchOpenAI ==
  Fetch("fetch_openai", provider_api.raw_fetch_openai, openai, "fetch_anthropic")

FetchAnthropic ==
  Fetch("fetch_anthropic", provider_api.raw_fetch_anthropic, anthropic, "merge")

\* 3. update existing managed models or add new ones
Merge ==
  /\ pc = "merge"
  /\ LET merged == MergeLoop([updated |-> <<>>, map |-> existing_managed_models_map],
                             all_fetched_api_models, refresh_caps)
     IN /\ updated_managed_models_list' = merged.updated
        /\ existing_managed_models_map' = merged.map
  /\ pc' = "probe"
  /\ UNCHANGED <<models_json, env, current_models_list, other_provider_models,
                 all_fetched_api_models, final_models_list, probe_pos, probe_calls,
                 fetch_errors, write_ok, prev_output>>

\* the positions of the probe loop's candidates that are still to be visited
CandidatesLeft ==
  {i \in (probe_pos + 1)..Len(updated_managed_models_list) :
     updated_managed_models_list[i].providerId = openai}

\* if enable_openai_probes is off, or the loop is over
ProbeDone ==
  /\ pc = "probe"
  /\ ~enable_openai_probes \/ CandidatesLeft = {}
  /\ pc' = "combine"
  /\ UNCHANGED <<models_json, env, current_models_list, existing_managed_models_map,
                 other_provider_models, all_fetched_api_models,
                 updated_managed_models_list, final_models_list, probe_pos,
                 probe_calls, fetch_errors, write_ok, prev_output>>

\* one iteration of "for m in candidates" on a record the filter lets pass
ProbeCall ==
  /\ pc = "probe"
  /\ enable_openai_probes
  /\ CandidatesLeft # {}
  /\ LET i == CHOOSE j \in CandidatesLeft : \A k \in CandidatesLeft : j <= k
         m == updated_managed_models_list[i]
     IN /\ ProbeEligible(m)
        /\ \E request \in {"ok", "error"} :
             LET supports_image == probe_openai_model_supports_image(request)
             IN /\ updated_managed_models_list' =
                     [updated_managed_models_list EXCEPT
                        ![i] = ProbeEffect(m, supports_image)]
                /\ probe_calls' =
                     Append(probe_calls, [model_id |-> m.id, result |-> supports_image])
        /\ probe_pos' = i
  /\ UNCHANGED <<models_json, env, pc, current_models_list,
                 existing_managed_models_map, other_provider_models,
                 all_fetched_api_models, final_models_list, fetch_errors, write_ok,
                 prev_output>>

\* one iteration of "for m in candidates" on a record the filter rejects
ProbeSkip ==
  /\ pc = "probe"
  /\ enable_openai_probes
  /\ CandidatesLeft # {}
  /\ LET i == CHOOSE j \in CandidatesLeft : \A k \in CandidatesLeft : j <= k
     IN /\ ~ProbeEligible(updated_managed_models_list[i])
        /\ probe_pos' = i
  /\ UNCHANGED <<models_json, env, pc, current_models_list,
                 existing_managed_models_map, other_provider_models,
                 all_fetched_api_models, updated_managed_models_list,
                 final_models_list, probe_calls, fetch_errors, write_ok, prev_output>>

\* 4. combine and sort; a record without "id" raises KeyError out of main
Combine ==
  /\ pc = "combine"
  /\ IF SortRaises(updated_managed_models_list \o other_provider_models)
     THEN /\ pc' = "crashed"
          /\ UNCHANGED final_models_list
     ELSE /\ pc' = "write"
          /\ final_models_list' =
               FinalModelsList(updated_managed_models_list, other_provider_models)
  /\ UNCHANGED <<models_json, env, current_models_list, existing_managed_models_map,
                 other_provider_models, all_fetched_api_models,
                 updated_managed_models_list, probe_pos, probe_calls, fetch_errors,
                 write_ok, prev_output>>

\* output_data as json.dump stores it and json.load returns it
Persisted(models) == [kind |-> "catalog", models |-> models]

\* 5. write models.json; a failure to open the file is logged, not raised
Write ==
  /\ pc = "write"
  /\ \E ok \in BOOLEAN :
       /\ write_ok' = ok
       /\ models_json' = IF ok THEN Persisted(final_models_list) ELSE models_json
  /\ pc' = "done"
  /\ UNCHANGED <<env, current_models_list, existing_managed_models_map,
                 other_provider_models, all_fetched_api_models,
                 updated_managed_models_list, final_models_list, probe_pos,
                 probe_calls, fetch_errors, prev_output>>

\* the script is run again on the file the last run left, with the same
\* environment and the same provider listings
Rerun ==
  /\ pc = "done"
  /\ prev_output' = [written |-> write_ok, models |-> final_models_list]
  /\ pc' = "load"
  /\ current_models_list' = <<>>
  /\ existing_managed_models_map' = EmptyMap
  /\ other_provider_models' = <<>>
  /\ all_fetched_api_models' = <<>>
  /\ updated_managed_models_list' = <<>>
  /\ final_models_list' = <<>>
  /\ probe_pos' = 0
  /\ probe_calls' = <<>>
  /\ fetch_errors' = {}
  /\ write_ok' = FALSE
  /\ UNCHANGED <<models_json, env>>

Next ==
  \/ Load
  \/ Partition
  \/ FetchGoogle
  \/ FetchOpenAI
  \/ FetchAnthropic
  \/ Merge
  \/ ProbeDone
  \/ ProbeCall
  \/ ProbeSkip
  \/ Combine
  \/ Write
  \/ Rerun

\* runs of the script, one after another
Spec == Init /\ [][Next]_vars

\* ------------------------------------------------------------------------
\* Properties
\* ------------------------------------------------------------------------

FlagSet == {FlagNames[i] : i \in 1..Len(FlagNames)}

\* final_models_list holds the output catalog of the current run
Final == pc \in {"write", "done"}

\* the output records of the three managed providers
ManagedOutput ==
  {i \in 1..Len(final_models_list) :
     final_models_list[i].providerId \in {google, openai, anthropic}}

\* the records of the three managed providers in the catalog the run loaded
ManagedPrior ==
  {j \in 1..Len(current_models_list) :
     /\ {"providerId", "id"} \subseteq DOMAIN current_models_list[j]
     /\ current_models_list[j].providerId \in {google, openai, anthropic}}

PriorKeys == {KeyOf(current_models_list[j]) : j \in ManagedPrior}

\* the prior record of a key (the last one, when the catalog repeats the key)
PriorRecord(k) ==
  current_models_list[CHOOSE j \in ManagedPrior :
                        /\ KeyOf(current_models_list[j]) = k
                        /\ \A h \in ManagedPrior :
                             KeyOf(current_models_list[h]) = k => h <= j]

FetchedKeys ==
  {KeyOf(all_fetched_api_models[i]) : i \in 1..Len(all_fetched_api_models)}

Count(r, list) == Cardinality({i \in 1..Len(list) : list[i] = r})

Unmanaged(list) ==
  {list[i] : i \in {j \in 1..Len(list) :
                      /\ "providerId" \in DOMAIN list[j]
                      /\ list[j].providerId \notin {google, openai, anthropic}}}

\* C1: with refresh disabled, every managed output record whose key is in the
\* prior catalog carries, for each flag the prior record defines, the prior
\* record's value.
C1_PriorFlagsPreserved ==
  (Final /\ ~refresh_caps) =>
    \A i \in ManagedOutput :
      LET r == final_models_list[i]
      IN KeyOf(r) \in PriorKeys =>
           \A flag \in FlagSet \cap DOMAIN PriorRecord(KeyOf(r)) :
             r[flag] = PriorRecord(KeyOf(r))[flag]

ReasoningImplication(r) == ~r.supportsReasoning => ~r.isAdvancedReasoner

\* C2 (as claimed): every managed output record satisfies
\* supportsReasoning = false => isAdvancedReasoner = false, also when its
\* flags were copied from the prior catalog.
C2_ImplicationOnEveryRecord ==
  Final => \A i \in ManagedOutput : ReasoningImplication(final_models_list[i])

\* C2 (amended): a managed output record satisfies supportsReasoning = false
\* => isAdvancedReasoner = false when its flags come from the classifier, that
\* is when refresh is enabled or its key is not in the prior catalog.
C2_ImplicationOnClassified ==
  Final =>
    \A i \in ManagedOutput :
      (refresh_caps \/ KeyOf(final_models_list[i]) \notin PriorKeys)
        => ReasoningImplication(final_models_list[i])

\* an output record without reasoning support whose flags the classifier set
C2_Witness ==
  /\ Final
  /\ \E i \in ManagedOutput :
       /\ refresh_caps \/ KeyOf(final_models_list[i]) \notin PriorKeys
       /\ ~final_models_list[i].supportsReasoning

\* C3: with refresh disabled, a run on the catalog the previous run wrote,
\* with the same fetch results, writes the same catalog again.
C3_Idempotent ==
  (pc = "done" /\ ~refresh_caps /\ prev_output.written)
    => final_models_list = prev_output.models

\* C4: the records of other providers in the output are those of the prior
\* catalog, each as many times as there and with every field unchanged.
C4_OtherPassThrough ==
  Final =>
    \A r \in Unmanaged(final_models_list) \cup Unmanaged(current_models_list) :
      Count(r, final_models_list) = Count(r, current_models_list)

\* an output with a record of another provider next to merged and probed ones
C4_Witness ==
  /\ Final
  /\ Unmanaged(current_models_list) # {}
  /\ ManagedOutput # {}
  /\ probe_calls # <<>>

\* C5: the managed keys of the output are the keys of the fetched candidates,
\* so a managed record of the prior catalog that was not fetched is gone.
C5_StaleRemoved ==
  Final =>
    /\ {KeyOf(final_models_list[i]) : i \in ManagedOutput} = FetchedKeys
    /\ \A k \in PriorKeys \ FetchedKeys :
         \A i \in 1..Len(final_models_list) : KeyOf(final_models_list[i]) # k

\* an output of a run that fetched something and left a prior record unmatched
C5_Witness ==
  /\ Final
  /\ PriorKeys \ FetchedKeys # {}
  /\ FetchedKeys # {}

SameButMultiModal(r, f) ==
  /\ r.id = f.id /\ r.providerId = f.providerId /\ r.name = f.name
  /\ \A flag \in FlagSet \ {"multiModal"} : r[flag] = f[flag]

\* C6 (as claimed): with refresh enabled, each of the six flags of every
\* managed output record is the value the classifier computed for the model.
C6_AllFlagsFromClassifier ==
  (Final /\ refresh_caps) =>
    \A i \in ManagedOutput :
      \E j \in 1..Len(all_fetched_api_models) :
        /\ SameButMultiModal(final_models_list[i], all_fetched_api_models[j])
        /\ final_models_list[i].multiModal = all_fetched_api_models[j].multiModal

\* C6 (amended): with refresh enabled, the flags of every managed output
\* record are the classifier's values for the model, except that multiModal
\* is true where the probe was called for the model and returned true.
C6_FlagsFromClassifierOrProbe ==
  (Final /\ refresh_caps) =>
    \A i \in ManagedOutput :
      \E j \in 1..Len(all_fetched_api_models) :
        /\ SameButMultiModal(final_models_list[i], all_fetched_api_models[j])
        /\ \/ final_models_list[i].multiModal = all_fetched_api_models[j].multiModal
           \/ /\ final_models_list[i].multiModal
              /\ \E c \in 1..Len(probe_calls) :
                   /\ probe_calls[c].model_id = final_models_list[i].id
                   /\ probe_calls[c].result

\* a refreshed record whose prior record stored another value of a flag
C6_Witness ==
  /\ Final
  /\ refresh_caps
  /\ \E i \in ManagedOutput :
       LET r == final_models_list[i]
       IN /\ KeyOf(r) \in PriorKeys
          /\ \E flag \in FlagSet \cap DOMAIN PriorRecord(KeyOf(r)) :
               r[flag] # PriorRecord(KeyOf(r))[flag]

FetchOf(provider_short_id) ==
  IF provider_short_id = google THEN provider_api.raw_fetch_google
  ELSE IF provider_short_id = openai THEN provider_api.raw_fetch_openai
  ELSE provider_api.raw_fetch_anthropic

Contributed(provider_short_id) ==
  SelectSeq(all_fetched_api_models, LAMBDA m : m.providerId = provider_short_id)

\* C7: a provider whose fetch_and_transform_models raised, in the raw fetch
\* or in the transformation of a descriptor, contributes no candidate, and
\* the others contribute what they contribute without the failure.
C7_FailedFetchContributesNothing ==
  pc \in {"merge", "probe", "combine", "write", "done"} =>
    \A p \in {google, openai, anthropic} :
      IF p \in fetch_errors
      THEN Contributed(p) = <<>>
      ELSE Contributed(p) = TransformLoop(FetchOf(p).listed, p)

HasProbePrefix(model_id) ==
  \/ StartsWith(Lower(model_id), <<"g", "p", "t", "-", "4", "o">>)
  \/ StartsWith(Lower(model_id), <<"o">>)
  \/ StartsWith(Lower(model_id), <<"g", "p", "t", "-", "5">>)

\* one step: a probe call needs ENABLE_OPENAI_PROBES and a merged openai
\* record with one of the three id prefixes; the probe loop changes a record
\* only by setting multiModal from false to true after the probe returned true
C8_ProbeStep ==
  LET called == Len(probe_calls') = Len(probe_calls) + 1
      call == probe_calls'[Len(probe_calls')]
  IN /\ called =>
          /\ enable_openai_probes
          /\ \E i \in 1..Len(updated_managed_models_list) :
               /\ updated_managed_models_list[i].id = call.model_id
               /\ updated_managed_models_list[i].providerId = openai
               /\ HasProbePrefix(call.model_id)
     /\ pc = "probe" =>
          /\ Len(updated_managed_models_list') = Len(updated_managed_models_list)
          /\ \A i \in 1..Len(updated_managed_models_list) :
               \/ updated_managed_models_list'[i] = updated_managed_models_list[i]
               \/ /\ called
                  /\ call.result
                  /\ call.model_id = updated_managed_models_list[i].id
                  /\ updated_managed_models_list[i].multiModal = FALSE
                  /\ updated_managed_models_list'[i] =
                       [updated_managed_models_list[i] EXCEPT !.multiModal = TRUE]

\* C8: every step of a run satisfies C8_ProbeStep: the probe is called only
\* when enabled and only for an openai record with one of the id prefixes, and
\* the probe loop changes nothing but multiModal, from false to true.
C8_ProbeFrame == [][C8_ProbeStep]_vars

\* the probe loop is over: one call returned true and raised multiModal, one
\* call failed
C8_Witness ==
  /\ pc = "combine"
  /\ \E c \in 1..Len(probe_calls) : ~probe_calls[c].result
  /\ \E i \in 1..Len(updated_managed_models_list) :
       /\ updated_managed_models_list[i].multiModal
       /\ ~all_fetched_api_models[i].multiModal
       /\ KeyOf(updated_managed_models_list[i]) \notin PriorKeys
       /\ \E c \in 1..Len(probe_calls) :
            /\ probe_calls[c].result
            /\ probe_calls[c].model_id = updated_managed_models_list[i].id

\* C9: whatever models.json holds, main gets to the write step.
C9_NeverFatal == pc # "crashed"

\* C10: no two managed records of the output share (providerId, id).
C10_UniqueKeys ==
  Final =>
    \A i, j \in ManagedOutput :
      i # j => KeyOf(final_models_list[i]) # KeyOf(final_models_list[j])

====
